---- MODULE Spec2Model ----
(***************************************************************************)
(* Model of the statistics ledger of ccache (src/stats.c): the in-process *)
(* counter_updates vector, the stats file codec, the 16 shard stats files *)
(* plus the top-level aggregate file, and the lock-mediated               *)
(* read-modify-write performed by stats_flush, stats_zero,                *)
(* stats_set_limits and stats_set_sizes, with the lock-free readers       *)
(* stats_read and stats_summary.                                          *)
(*                                                                         *)
(* A C `unsigned` is 32 bits wide.  TLC integers are 32-bit signed, so an *)
(* unsigned value is kept as the pair <<high half, low half>> of its two  *)
(* 16-bit halves and arithmetic is done half by half with carry.          *)
(***************************************************************************)
EXTENDS Integers, Sequences, FiniteSets, TLC

(***************************************************************************)
(* 32-bit unsigned arithmetic                                              *)
(***************************************************************************)
Half == 256 * 256

(* the unsigned value n, for 0 <= n < 2^31 *)
U(n) == <<n \div Half, n % Half>>

UZero == <<0, 0>>

UINT_MAX == <<Half - 1, Half - 1>>

(* a + b that stays at UINT_MAX when the sum does not fit *)
USatAdd(a, b) ==
    LET lo == a[2] + b[2]
        hi == a[1] + b[1] + (lo \div Half)
    IN  IF hi >= Half THEN UINT_MAX ELSE <<hi, lo % Half>>

(* a + b on unsigned: the sum modulo 2^32 *)
UAdd(a, b) ==
    LET lo == a[2] + b[2]
        hi == a[1] + b[1] + (lo \div Half)
    IN  <<hi % Half, lo % Half>>

(* a > b on unsigned *)
UGt(a, b) == a[1] > b[1] \/ (a[1] = b[1] /\ a[2] > b[2])

(***************************************************************************)
(* enum stats (ccache.h): STATS_NONE is slot 0, STATS_END the vector length *)
(***************************************************************************)
STATS_NONE == 0
STATS_STDOUT == 1
STATS_STATUS == 2
STATS_ERROR == 3
STATS_TOCACHE == 4
STATS_PREPROCESSOR == 5
STATS_COMPILER == 6
STATS_MISSING == 7
STATS_CACHEHIT_CPP == 8
STATS_ARGS == 9
STATS_LINK == 10
STATS_NUMFILES == 11
STATS_TOTALSIZE == 12
STATS_MAXFILES == 13
STATS_MAXSIZE == 14
STATS_SOURCELANG == 15
STATS_DEVICE == 16
STATS_NOINPUT == 17
STATS_MULTIPLE == 18
STATS_CONFTEST == 19
STATS_UNSUPPORTED == 20
STATS_OUTSTDOUT == 21
STATS_CACHEHIT_DIR == 22
STATS_NOOUTPUT == 23
STATS_EMPTYOUTPUT == 24
STATS_BADEXTRAFILE == 25
STATS_END == 26

Slots == 0 .. (STATS_END - 1)

(* default maximum cache size *)
DEFAULT_MAXSIZE == 1024 * 1024

FLAG_NOZERO == 1
FLAG_ALWAYS == 2

(* statistics fields in display order: <<stat, flags>>; the terminating   *)
(* entry (STATS_NONE, message NULL) ends every loop over the table and is  *)
(* not part of the sequence                                                *)
stats_info == <<
    <<STATS_CACHEHIT_DIR, FLAG_ALWAYS>>,
    <<STATS_CACHEHIT_CPP, FLAG_ALWAYS>>,
    <<STATS_TOCACHE, FLAG_ALWAYS>>,
    <<STATS_LINK, 0>>,
    <<STATS_MULTIPLE, 0>>,
    <<STATS_STDOUT, 0>>,
    <<STATS_NOOUTPUT, 0>>,
    <<STATS_EMPTYOUTPUT, 0>>,
    <<STATS_STATUS, 0>>,
    <<STATS_ERROR, 0>>,
    <<STATS_PREPROCESSOR, 0>>,
    <<STATS_COMPILER, 0>>,
    <<STATS_MISSING, 0>>,
    <<STATS_ARGS, 0>>,
    <<STATS_SOURCELANG, 0>>,
    <<STATS_CONFTEST, 0>>,
    <<STATS_UNSUPPORTED, 0>>,
    <<STATS_OUTSTDOUT, 0>>,
    <<STATS_DEVICE, 0>>,
    <<STATS_NOINPUT, 0>>,
    <<STATS_BADEXTRAFILE, 0>>,
    <<STATS_NUMFILES, FLAG_NOZERO + FLAG_ALWAYS>>,
    <<STATS_TOTALSIZE, FLAG_NOZERO + FLAG_ALWAYS>>,
    <<STATS_MAXFILES, FLAG_NOZERO>>,
    <<STATS_MAXSIZE, FLAG_NOZERO>> >>

(* flags & bit, for the one-bit masks FLAG_NOZERO (1) and FLAG_ALWAYS (2) *)
HasFlag(flags, bit) == (flags \div bit) % 2 = 1

(* memset(counters, 0, sizeof(counters)) *)
ZeroCounters == [i \in Slots |-> UZero]

(***************************************************************************)
(* Stats File Codec.  A file is a record [exists, data]; data is the       *)
(* sequence of its whitespace-separated tokens.  A token that strtol can   *)
(* parse is the unsigned number it spells (a pair); any other token is <<>>.*)
(***************************************************************************)
NoFile == [exists |-> FALSE, data |-> <<>>]

File(tokens) == [exists |-> TRUE, data |-> tokens]

Junk == <<>>

IsNumber(tok) == Len(tok) = 2

(* the widths of long among the builds (ILP32 and LLP64: 32, LP64: 64) *)
LongBits == {32, 64}

(* LONG_MAX of a build whose long has 32 bits *)
LONG_MAX_32 == <<(Half \div 2) - 1, Half - 1>>

(* strtol(p, &p2, 10) on one token, as the value added to an unsigned:     *)
(* a token without digits converts nothing and gives 0; a number above     *)
(* LONG_MAX is clamped to LONG_MAX (only possible when long has 32 bits)   *)
strtol(tok, bits) ==
    IF ~IsNumber(tok) THEN UZero
    ELSE IF bits = 32 /\ UGt(tok, LONG_MAX_32) THEN LONG_MAX_32
    ELSE tok

RECURSIVE parse_loop(_, _, _, _)
parse_loop(counters, buf, i, bits) ==
    IF i >= STATS_END THEN counters
    ELSE IF i + 1 > Len(buf) \/ ~IsNumber(buf[i + 1])
         THEN counters    (* counters[i] += 0; p2 == p: break *)
         ELSE parse_loop([counters EXCEPT ![i] = UAdd(@, strtol(buf[i + 1], bits))],
                         buf, i + 1, bits)

(* parse a stats file from a buffer - adding to the counters *)
parse_stats(counters, buf, bits) == parse_loop(counters, buf, 0, bits)

(* the lines write_stats prints: "%u\n" of each counter, in index order *)
stats_lines(counters) == [i \in 1 .. STATS_END |-> counters[i - 1]]

(* the first n elements of a sequence *)
Prefix(seq, n) == SubSeq(seq, 1, n)

(* write_stats that goes on to the rename after a failed fprintf *)
write_stats_unchecked(counters, fault, n) ==
    CASE fault = "fopen" -> [tmp |-> NoFile, next |-> "release"]
      [] fault = "fprintf" ->
           [tmp |-> File(Prefix(stats_lines(counters), n)), next |-> "rename"]
      [] OTHER -> [tmp |-> File(stats_lines(counters)), next |-> "rename"]

(* write_stats(path, counters) up to the fclose: the temp file it leaves   *)
(* and where the function goes on.  fault names the library call that      *)
(* fails: "none"; "fopen" (logged, the function returns); "fprintf" of     *)
(* line n (fatal: the process exits, n lines are in the temp file).        *)
write_stats(counters, fault, n) ==
    CASE fault = "fopen" -> [tmp |-> NoFile, next |-> "release"]
      [] fault = "fprintf" ->
           [tmp |-> File(Prefix(stats_lines(counters), n)), next |-> "fatal"]
      [] OTHER -> [tmp |-> File(stats_lines(counters)), next |-> "rename"]

(* x_rename(tmp_file, path) at the end of write_stats, its result ignored: *)
(* <<the file at path, the temp file>> afterwards                          *)
x_rename(tmp_file, old, fault) ==
    IF fault = "rename" THEN <<old, tmp_file>> ELSE <<tmp_file, NoFile>>

(* stats_default that leaves the vector as it is *)
stats_default_none(counters) == counters

(* fill in some default stats values *)
stats_default(counters) ==
    [counters EXCEPT ![STATS_MAXSIZE] = UAdd(@, U(DEFAULT_MAXSIZE \div 16))]

(* read in the stats from one open file and add to the counters:           *)
(* read() returning 0 bytes (an empty file) gives the defaults             *)
(* stats_read_fd that takes a file with a token that is no number for a    *)
(* missing one                                                             *)
stats_read_fd_strict(f, counters, bits) ==
    IF Len(f.data) = 0 \/ \E i \in 1 .. Len(f.data) : ~IsNumber(f.data[i])
    THEN stats_default(counters)
    ELSE parse_stats(counters, f.data, bits)

(* stats_read_fd that parses whatever it read, an empty file too *)
stats_read_fd_nodefault(f, counters, bits) == parse_stats(counters, f.data, bits)

stats_read_fd(f, counters, bits) ==
    IF Len(f.data) = 0 THEN stats_default(counters)
    ELSE parse_stats(counters, f.data, bits)

(* open(path, O_RDONLY): -1 when the file is absent, then the defaults *)
stats_read(f, counters, bits) ==
    IF ~f.exists THEN stats_default(counters)
    ELSE stats_read_fd(f, counters, bits)

(* what a read of file f into counters can give, over the builds *)
ReadResults(f, counters) == {stats_read(f, counters, b) : b \in LongBits}

(***************************************************************************)
(* Counter Ledger                                                          *)
(***************************************************************************)
(* stats_update_size(stat, size, files) on the pending vector; size and    *)
(* files are the arguments already converted to unsigned                   *)
stats_update_size(updates, stat, size, nfiles) ==
    LET u1 == IF stat # STATS_NONE
              THEN [updates EXCEPT ![stat] = UAdd(@, U(1))]
              ELSE updates
        u2 == [u1 EXCEPT ![STATS_NUMFILES] = UAdd(@, nfiles)]
    IN  [u2 EXCEPT ![STATS_TOTALSIZE] = UAdd(@, size)]

(* update a normal stat *)
stats_update(updates, stat) == stats_update_size(updates, stat, UZero, UZero)

(* stats_flush that goes on with nothing pending *)
should_flush_always(updates) == TRUE

(* stats_flush: is any pending counter > 0 *)
should_flush(updates) == \E i \in Slots : UGt(updates[i], UZero)

(* a merge that stores the pending vector over the one read *)
flush_merge_overwrite(counters, updates) == updates

(* stats_flush: counters[i] += counter_updates[i] for every slot *)
flush_merge(counters, updates) == [i \in Slots |-> UAdd(counters[i], updates[i])]

(* need_cleanup without the tests for a limit of 0 *)
need_cleanup_nozero(counters) ==
    \/ UGt(counters[STATS_NUMFILES], counters[STATS_MAXFILES])
    \/ UGt(counters[STATS_TOTALSIZE], counters[STATS_MAXSIZE])

(* stats_flush: need_cleanup after the update *)
need_cleanup(counters) ==
    \/ /\ counters[STATS_MAXFILES] # UZero
       /\ UGt(counters[STATS_NUMFILES], counters[STATS_MAXFILES])
    \/ /\ counters[STATS_MAXSIZE] # UZero
       /\ UGt(counters[STATS_TOTALSIZE], counters[STATS_MAXSIZE])

(* stats_zero: zero every counter of the table not flagged FLAG_NOZERO *)
RECURSIVE zero_loop(_, _)
zero_loop(counters, i) ==
    IF i > Len(stats_info) THEN counters
    ELSE IF ~HasFlag(stats_info[i][2], FLAG_NOZERO)
         THEN zero_loop([counters EXCEPT ![stats_info[i][1]] = UZero], i + 1)
         ELSE zero_loop(counters, i + 1)

(* stats_zero that ignores FLAG_NOZERO but for the two limits *)
zero_counters_sizes(counters) ==
    [i \in Slots |-> IF i \in {STATS_MAXFILES, STATS_MAXSIZE} THEN counters[i] ELSE UZero]

zero_counters(counters) == zero_loop(counters, 1)

(* C integer division, truncating toward zero *)
CDiv(a, b) == IF a >= 0 THEN a \div b ELSE -((-a) \div b)

(* stats_set_limits without the division *)
limit_undivided(v) == v

(* stats_set_limits: maxfiles /= 16 unless it is -1 *)
limit_per_dir(v) == IF v # -1 THEN CDiv(v, 16) ELSE v

(* stats_set_limits: store the divided limits unless -1; a long is         *)
(* converted to unsigned on assignment (the inputs of the model are below  *)
(* 2^31, so the conversion keeps the value)                                *)
set_limits_counters(counters, maxfiles, maxsize) ==
    LET c1 == IF maxfiles # -1
              THEN [counters EXCEPT ![STATS_MAXFILES] = U(maxfiles)]
              ELSE counters
    IN  IF maxsize # -1 THEN [c1 EXCEPT ![STATS_MAXSIZE] = U(maxsize)] ELSE c1

(* stats_set_sizes that adds to the two size counters *)
set_sizes_add(counters, num_files, total_size) ==
    [counters EXCEPT ![STATS_NUMFILES] = UAdd(@, num_files),
                     ![STATS_TOTALSIZE] = UAdd(@, total_size)]

(* stats_set_sizes: overwrite the two size counters *)
set_sizes_counters(counters, num_files, total_size) ==
    [counters EXCEPT ![STATS_NUMFILES] = num_files, ![STATS_TOTALSIZE] = total_size]

(***************************************************************************)
(* Bounds and inputs of the model                                          *)
(***************************************************************************)
(* record calls (stats_update, stats_update_size) the processes make; a    *)
(* process makes them before it calls stats_flush                          *)
MaxRecords == 2

(* stats_flush calls the processes make *)
MaxFlushes == 2

(* the disk under the cache directory: "ok", or one on which every fopen   *)
(* for writing ("readonly"), every fprintf ("full") or every rename        *)
(* ("norename") fails                                                      *)
DiskStates == {"ok", "readonly", "full", "norename"}

(* the processes; any of them may compile (record and flush), the          *)
(* processes of Admins may instead run one administrative operation        *)
Procs == {"p1", "p2"}

Admins == {"p1"}

(* the 16 cache subdirectories 0..f; path -1 is the top-level stats file *)
Shards == 0 .. 15

TopLevel == -1

Paths == {TopLevel} \cup Shards

(* <<stat, size, files>> of the record calls a process makes:              *)
(* stats_update(CACHEHIT_DIR), stats_update_size(TOCACHE, 512, 1) and      *)
(* stats_update_size(NONE, 3, 1)                                           *)
RecordInputs(p) ==
    IF p = "p1"
    THEN { <<STATS_CACHEHIT_DIR, UZero, UZero>>, <<STATS_TOCACHE, U(512), U(1)>> }
    ELSE { <<STATS_NONE, U(3), U(1)>> }

(* the subdirectory of a computed cache entry; hash_from_int(getpid())     *)
EntryShards == {0}

PidHashes == {47}

(* <<maxfiles, maxsize>> passed to stats_set_limits *)
LimitInputs == { <<160, 1600>>, <<-1, 33>>, <<160, -1>> }

(* <<dir, num_files, total_size>> passed to stats_set_sizes *)
SizeInputs == { <<0, U(3), U(77)>>, <<15, UZero, UZero>> }

(* the lines at which an fprintf of write_stats fails *)
FailLines == {0, STATS_END - 1}

(* paths handed to stats_read *)
ReadInputs == {TopLevel, 0, 15}

(* a stats file as a previous run left it in subdirectory s *)
UsedVector(s) ==
    [i \in Slots |->
        CASE i = STATS_TOCACHE -> U(s + 1)
          [] i = STATS_CACHEHIT_DIR -> U(7)
          [] i = STATS_NUMFILES -> U(10)
          [] i = STATS_TOTALSIZE -> U(100)
          [] i = STATS_MAXFILES -> U(10)
          [] i = STATS_MAXSIZE -> U(100)
          [] OTHER -> UZero]

(* the cache directory before the first step: a cache in use whose        *)
(* subdirectories 0..7 each hold a complete stats file, beside the         *)
(* top-level file of an older version; the subdirectories 8..f have not    *)
(* been created yet                                                        *)
UsedShards == 0 .. 7

InitWorld ==
    [dirs |-> UsedShards,
     files |-> [q \in Paths |->
                  IF q = TopLevel THEN File(stats_lines(UsedVector(20)))
                  ELSE IF q \in UsedShards THEN File(stats_lines(UsedVector(q)))
                  ELSE NoFile]]

(* a stats file with counters close to the largest unsigned value: beyond  *)
(* LONG_MAX of a 32-bit long in "to cache", UINT_MAX files, UINT_MAX - 1   *)
(* KiB                                                                     *)
BigVector ==
    [i \in Slots |->
        CASE i = STATS_TOCACHE -> UAdd(U(1500000000), U(1500000000))
          [] i = STATS_NUMFILES -> UINT_MAX
          [] i = STATS_TOTALSIZE -> <<Half - 1, Half - 2>>
          [] i = STATS_MAXFILES -> U(10)
          [] i = STATS_MAXSIZE -> U(100)
          [] i = STATS_BADEXTRAFILE -> U(5)
          [] OTHER -> UZero]

(* the vectors whose encodings are read back *)
CodecVectors == {UsedVector(3), BigVector}

(* the cache directory whose subdirectory 0 holds the first k lines of the *)
(* encoding of v, followed by a token that is no number when `junk`        *)
CodecWorld(v, k, junk) ==
    [dirs |-> UsedShards,
     files |-> [InitWorld.files EXCEPT
                   ![0] = File(IF junk THEN Append(Prefix(stats_lines(v), k), Junk)
                               ELSE Prefix(stats_lines(v), k))],
     vector |-> v,
     lines |-> k,
     junk |-> junk]

(* the number of good lines before the token that is no number *)
JunkLines == {0, 1, STATS_MAXSIZE, STATS_END - 1}

CodecWorlds ==
    {CodecWorld(v, k, FALSE) : v \in CodecVectors, k \in 0 .. STATS_END}
      \cup {CodecWorld(v, k, TRUE) : v \in CodecVectors, k \in JunkLines}

(* the pending vector of the compiling process: nothing yet, or sizes      *)
(* recorded before that come close to UINT_MAX                             *)
BigPending ==
    [i \in Slots |->
        CASE i = STATS_NUMFILES -> UINT_MAX
          [] i = STATS_TOTALSIZE -> <<Half - 1, Half - 2>>
          [] OTHER -> UZero]

CodecPendings == {ZeroCounters, BigPending}

(***************************************************************************)
(* State                                                                   *)
(***************************************************************************)
VARIABLES
    files,            \* Paths -> the stats file at that path
    dirs,             \* the cache subdirectories that exist
    tmp,              \* Procs -> the temp file path.tmp.<tmp_string()> of the process
    lock,             \* Shards -> the holder of the lock file, or "free"
    world0,           \* the cache directory before the first step
    nostats,          \* Procs -> getenv("CCACHE_NOSTATS") is set
    cache_dir,        \* Procs -> cache_dir is not NULL
    stats_file,       \* Procs -> the subdirectory of stats_file, or NULL
    counter_updates,  \* Procs -> the pending vector
    pc,               \* Procs -> position in the running operation
    op,               \* Procs -> the operation running, or the last one run
    role,             \* Procs -> "new", "compile" or "admin"
    counters,         \* Procs -> the local vector of the operation
    dir,              \* Procs -> loop variable of zero, set_limits, summary
    args,             \* Procs -> arguments of the operation
    ret,              \* Procs -> return value of stats_set_limits
    rd,               \* Procs -> the vector as read, before it is modified
    nrec,             \* Procs -> record calls made
    nflush,           \* Procs -> stats_flush calls made
    nwrote,           \* Procs -> stats files the process renamed into place
    flushed,          \* Procs -> sum of the pending vectors merged by its flushes
    cleaned,          \* Procs -> cleanup_dir calls of the last stats_flush
    disk,             \* the state of the disk, of DiskStates
    intruded          \* a lock was broken while its holder was inside the update

vars == <<files, dirs, tmp, lock, world0, nostats, cache_dir, stats_file,
          counter_updates, pc, op, role, counters, dir, args, ret, rd, nrec, nflush,
          nwrote, disk, flushed, cleaned, intruded>>

NULL == -2

(* the state before the first step, in the cache directory w, of processes *)
(* whose pending vectors are `pending` and whose CCACHE_NOSTATS are `env`   *)
StartWith(w, pending, env) ==
    /\ world0 = w
    /\ files = world0.files
    /\ dirs = world0.dirs
    /\ tmp = [p \in Procs |-> NoFile]
    /\ lock = [s \in Shards |-> "free"]
    /\ nostats = env
    /\ cache_dir = [p \in Procs |-> TRUE]
    /\ stats_file = [p \in Procs |-> NULL]
    /\ counter_updates = pending
    /\ pc = [p \in Procs |-> "idle"]
    /\ op = [p \in Procs |-> "none"]
    /\ role = [p \in Procs |-> "new"]
    /\ counters = [p \in Procs |-> ZeroCounters]
    /\ dir = [p \in Procs |-> 0]
    /\ args = [p \in Procs |-> <<>>]
    /\ ret = [p \in Procs |-> 0]
    /\ rd = [p \in Procs |-> ZeroCounters]
    /\ nrec = [p \in Procs |-> 0]
    /\ nflush = [p \in Procs |-> 0]
    /\ nwrote = [p \in Procs |-> 0]
    /\ flushed = [p \in Procs |-> ZeroCounters]
    /\ cleaned = [p \in Procs |-> <<>>]
    /\ intruded = FALSE

(* static unsigned counter_updates[STATS_END]: all zero at process start *)
NoPending == [p \in Procs |-> ZeroCounters]

(* CCACHE_NOSTATS is set for no process *)
NoEnv == [p \in Procs |-> FALSE]

Start == StartWith(InitWorld, NoPending, NoEnv)

(***************************************************************************)
(* Collaborators                                                           *)
(***************************************************************************)
(* lockfile_acquire(path, lock_staleness_limit): the outcomes it can have  *)
(* for a lock file held by `holder` in a directory that exists or not.     *)
(* A free lock is acquired.  A held lock is waited for (no step), given up *)
(* on ("failed"), or, once it is older than the staleness limit, broken    *)
(* and acquired ("broke").  No lock file can be made in a missing directory*)
lockfile_acquire(holder, dir_exists) ==
    IF ~dir_exists THEN {"failed"}
    ELSE IF holder = "free" THEN {"acquired"}
    ELSE {"failed", "broke"}

(* lockfile_release(path): the lock file is removed *)
lockfile_release(locks, s) == [locks EXCEPT ![s] = "free"]

(* create_dir(dir): the directories after the call; a directory that      *)
(* exists is left alone, a missing one is made unless the disk is          *)
(* read-only                                                               *)
create_dir(ds, d) == IF disk = "readonly" THEN ds ELSE ds \cup {d}

(* the value create_dir(dir) returns: 0 when the directory is there after  *)
(* the call                                                                *)
create_dir_rc(ds, d) == IF d \in create_dir(ds, d) THEN 0 ELSE 1

(* safe_open(statsfile): the file opened for reading, -1 when there is none *)
safe_open(f) == f

(***************************************************************************)
(* Helpers over the state                                                  *)
(***************************************************************************)
(* the library call that fails in the step `at` of write_stats *)
DiskFault(at) ==
    CASE at = "write" /\ disk = "readonly" -> "fopen"
      [] at = "write" /\ disk = "full" -> "fprintf"
      [] at = "rename" /\ disk = "norename" -> "rename"
      [] OTHER -> "none"

(* the calls all processes made, from the calls each made *)
Calls(n) == n["p1"] + n["p2"]

(* a stats_flush that writes the top-level stats file *)
TopLevelPath(p) ==
    CASE op[p] = "flush" -> TopLevel
      [] op[p] = "set_sizes" -> args[p][1]
      [] OTHER -> dir[p]

(* the subdirectory whose stats file the running operation works on *)
CurPath(p) ==
    CASE op[p] = "flush" -> stats_file[p]
      [] op[p] = "set_sizes" -> args[p][1]
      [] OTHER -> dir[p]

(* between a successful lockfile_acquire and the lockfile_release *)
InUpdate(p) == pc[p] \in {"read", "write", "rename", "release"}

(* the lock of subdirectory s after lockfile_acquire by p ended with o *)
Locked(p, s, o) ==
    /\ lock' = IF o = "failed" THEN lock ELSE [lock EXCEPT ![s] = p]
    /\ intruded' = (intruded \/ (o = "broke" /\ InUpdate(lock[s]) /\ CurPath(lock[s]) = s))

(* stats_flush that goes on whatever lockfile_acquire returned *)
flush_ignores_lock(o) == "read"

(* stats_flush: return when the lock is not acquired, else go on to read *)
flush_after_lock(o) == IF o = "failed" THEN "idle" ELSE "read"

(***************************************************************************)
(* The compiling process: record calls, then stats_flush                   *)
(***************************************************************************)
Record(p) ==
    /\ pc[p] = "idle" /\ role[p] # "admin" /\ Calls(nrec) < MaxRecords
    /\ nflush[p] = 0
    /\ \E in \in RecordInputs(p) :
          counter_updates' = [counter_updates EXCEPT
                                 ![p] = stats_update_size(@, in[1], in[2], in[3])]
    /\ nrec' = [nrec EXCEPT ![p] = @ + 1]
    /\ role' = [role EXCEPT ![p] = "compile"]
    /\ UNCHANGED <<files, dirs, tmp, lock, world0, nostats, cache_dir,
                   stats_file, pc, op, counters, dir, args, ret, rd, nflush, nwrote, disk,
                   flushed, cleaned, intruded>>

(* the cache entry of the compilation is computed: stats_file is set to    *)
(* the stats file of its subdirectory, which is created                    *)
ComputeHash(p) ==
    /\ pc[p] = "idle" /\ role[p] # "admin" /\ nflush[p] = 0
    /\ stats_file[p] = NULL /\ cache_dir[p]
    /\ \E s \in EntryShards :
          /\ stats_file' = [stats_file EXCEPT ![p] = s]
          /\ dirs' = create_dir(dirs, s)
    /\ role' = [role EXCEPT ![p] = "compile"]
    /\ UNCHANGED <<files, tmp, lock, world0, nostats, cache_dir,
                   counter_updates, pc, op, counters, dir, args, ret, rd, nrec, nflush,
                   nwrote, disk, flushed, cleaned, intruded>>

(* stats_flush returns before touching anything *)
FlushNoop(p) ==
    /\ pc[p] = "idle" /\ role[p] # "admin" /\ Calls(nflush) < MaxFlushes
    /\ \/ nostats[p]
       \/ ~should_flush(counter_updates[p])
       \/ stats_file[p] = NULL /\ ~cache_dir[p]
    /\ nflush' = [nflush EXCEPT ![p] = @ + 1]
    /\ op' = [op EXCEPT ![p] = "flush"]
    /\ role' = [role EXCEPT ![p] = "compile"]
    /\ cleaned' = [cleaned EXCEPT ![p] = <<>>]
    /\ UNCHANGED <<files, dirs, tmp, lock, world0, nostats, cache_dir,
                   stats_file, counter_updates, pc, counters, dir, args, ret, rd, nrec,
                   nwrote, disk, flushed, intruded>>

(* stats_flush up to the lockfile_acquire call *)
FlushBegin(p) ==
    /\ pc[p] = "idle" /\ role[p] # "admin" /\ Calls(nflush) < MaxFlushes
    /\ ~nostats[p]
    /\ should_flush(counter_updates[p])
    /\ \/ /\ stats_file[p] = NULL /\ cache_dir[p]
          /\ \E h \in PidHashes :
                /\ stats_file' = [stats_file EXCEPT ![p] = h % 16]
                /\ dirs' = create_dir(dirs, h % 16)
       \/ /\ stats_file[p] # NULL
          /\ UNCHANGED <<stats_file, dirs>>
    /\ counters' = [counters EXCEPT ![p] = ZeroCounters]
    /\ nflush' = [nflush EXCEPT ![p] = @ + 1]
    /\ op' = [op EXCEPT ![p] = "flush"]
    /\ role' = [role EXCEPT ![p] = "compile"]
    /\ cleaned' = [cleaned EXCEPT ![p] = <<>>]
    /\ pc' = [pc EXCEPT ![p] = "lock"]
    /\ UNCHANGED <<files, tmp, lock, world0, nostats, cache_dir,
                   counter_updates, dir, args, ret, rd, nrec, nwrote, disk, flushed,
                   intruded>>

(* stats_flush that reads and writes without taking the lock *)
FlushWithoutLock(p) ==
    /\ pc[p] = "lock" /\ op[p] = "flush"
    /\ pc' = [pc EXCEPT ![p] = "read"]
    /\ UNCHANGED <<files, dirs, tmp, lock, world0, nostats, cache_dir, stats_file,
                   counter_updates, op, role, counters, dir, args, ret, rd, nrec, nflush,
                   nwrote, disk, flushed, cleaned, intruded>>

FlushAcquire(p) ==
    /\ pc[p] = "lock" /\ op[p] = "flush"
    /\ \E o \in lockfile_acquire(lock[stats_file[p]], stats_file[p] \in dirs) :
          /\ Locked(p, stats_file[p], o)
          /\ pc' = [pc EXCEPT ![p] = flush_after_lock(o)]
    /\ UNCHANGED <<files, dirs, tmp, world0, nostats, cache_dir, stats_file,
                   counter_updates, op, role, counters, dir, args, ret, rd, nrec, nflush,
                   nwrote, disk, flushed, cleaned>>

(* read the stats file (or the defaults) and add the pending vector *)
FlushRead(p) ==
    /\ pc[p] = "read" /\ op[p] = "flush"
    /\ \E c \in ReadResults(files[stats_file[p]], counters[p]) :
           /\ rd' = [rd EXCEPT ![p] = c]
           /\ counters' = [counters EXCEPT ![p] = flush_merge(c, counter_updates[p])]
    /\ flushed' = [flushed EXCEPT ![p] = flush_merge(@, counter_updates[p])]
    /\ pc' = [pc EXCEPT ![p] = "write"]
    /\ UNCHANGED <<files, dirs, tmp, lock, world0, nostats, cache_dir,
                   stats_file, counter_updates, op, role, dir, args, ret, nrec, nflush,
                   nwrote, disk, cleaned, intruded>>

(* write_stats(path, counters) up to the fclose: the temp file is written, *)
(* unless fopen or an fprintf fails; after a failed fprintf the process    *)
(* has exited, still holding the lock                                     *)
WriteStats(p) ==
    /\ pc[p] = "write"
    /\ \E n \in FailLines :
          LET r == write_stats(counters[p], DiskFault("write"), n)
          IN  /\ tmp' = [tmp EXCEPT ![p] = r.tmp]
              /\ pc' = [pc EXCEPT ![p] = r.next]
    /\ UNCHANGED files
    /\ UNCHANGED <<dirs, lock, world0, nostats, cache_dir, stats_file,
                   counter_updates, op, role, counters, dir, args, ret, rd, nrec, nflush,
                   nwrote, disk, flushed, cleaned, intruded>>

(* the x_rename that ends write_stats: the temp file replaces the stats    *)
(* file in one step, and nothing looks at the result of a rename that      *)
(* fails                                                                   *)
Rename(p) ==
    /\ pc[p] = "rename"
    /\ LET r == x_rename(tmp[p], files[CurPath(p)], DiskFault("rename"))
       IN  /\ files' = [files EXCEPT ![CurPath(p)] = r[1]]
           /\ tmp' = [tmp EXCEPT ![p] = r[2]]
    /\ nwrote' = [nwrote EXCEPT ![p] = IF DiskFault("rename") = "none" THEN @ + 1 ELSE @]
    /\ pc' = [pc EXCEPT ![p] = "release"]
    /\ UNCHANGED <<dirs, lock, world0, nostats, cache_dir, stats_file,
                   counter_updates, op, role, counters, dir, args, ret, rd, nrec, nflush,
                   disk, flushed, cleaned, intruded>>

(* stats_flush that goes on to the limits without lockfile_release *)
FlushKeepsLock(p) ==
    /\ pc[p] = "release" /\ op[p] = "flush"
    /\ pc' = [pc EXCEPT ![p] = "limits"]
    /\ UNCHANGED <<files, dirs, tmp, lock, world0, nostats, cache_dir, stats_file,
                   counter_updates, op, role, counters, dir, args, ret, rd, nrec, nflush,
                   nwrote, disk, flushed, cleaned, intruded>>

FlushRelease(p) ==
    /\ pc[p] = "release" /\ op[p] = "flush"
    /\ lock' = lockfile_release(lock, stats_file[p])
    /\ pc' = [pc EXCEPT ![p] = "limits"]
    /\ UNCHANGED <<files, dirs, tmp, world0, nostats, cache_dir, stats_file,
                   counter_updates, op, role, counters, dir, args, ret, rd, nrec, nflush,
                   nwrote, disk, flushed, cleaned, intruded>>

(* the limit check and the cleanup_dir call, after the lock is released *)
FlushCleanup(p) ==
    /\ pc[p] = "limits"
    /\ cleaned' = [cleaned EXCEPT ![p] =
                      IF need_cleanup(counters[p])
                      THEN Append(@, <<stats_file[p], counters[p][STATS_MAXFILES],
                                       counters[p][STATS_MAXSIZE]>>)
                      ELSE @]
    /\ pc' = [pc EXCEPT ![p] = "idle"]
    /\ counters' = [counters EXCEPT ![p] = ZeroCounters]
    /\ rd' = [rd EXCEPT ![p] = ZeroCounters]
    /\ UNCHANGED <<files, dirs, tmp, lock, world0, nostats, cache_dir,
                   stats_file, counter_updates, op, role, dir, args, ret,
                   nrec, nflush, nwrote, disk, flushed, intruded>>

(***************************************************************************)
(* stats_zero                                                              *)
(***************************************************************************)
(* after the body of a loop over the subdirectories: dir++ and the test *)
NextDir(p, again) ==
    /\ dir' = [dir EXCEPT ![p] = @ + 1]
    /\ pc' = [pc EXCEPT ![p] = IF dir[p] + 1 <= 15 THEN again ELSE "idle"]

(* a loop that goes on to read and write whatever lockfile_acquire returned *)
loop_ignores_lock(o) == "read"

(* stats_zero / stats_set_limits: continue with the next subdirectory when *)
(* the lock is not acquired                                                *)
loop_after_lock(o) == IF o = "failed" THEN "continue" ELSE "read"

(* unlink the top-level stats file and enter the loop *)
ZeroCall(p) ==
    /\ pc[p] = "idle" /\ role[p] = "new" /\ p \in Admins /\ cache_dir[p]
    /\ files' = [files EXCEPT ![TopLevel] = NoFile]
    /\ dir' = [dir EXCEPT ![p] = 0]
    /\ op' = [op EXCEPT ![p] = "zero"]
    /\ role' = [role EXCEPT ![p] = "admin"]
    /\ pc' = [pc EXCEPT ![p] = "lock"]
    /\ UNCHANGED <<dirs, tmp, lock, world0, nostats, cache_dir, stats_file,
                   counter_updates, counters, args, ret, rd, nrec, nflush, nwrote, disk,
                   flushed, cleaned, intruded>>

ZeroAcquire(p) ==
    /\ pc[p] = "lock" /\ op[p] = "zero"
    /\ counters' = [counters EXCEPT ![p] = ZeroCounters]
    /\ \E o \in lockfile_acquire(lock[dir[p]], dir[p] \in dirs) :
          /\ Locked(p, dir[p], o)
          /\ IF loop_after_lock(o) = "continue"
             THEN NextDir(p, "lock")
             ELSE /\ pc' = [pc EXCEPT ![p] = "read"]
                  /\ UNCHANGED dir
    /\ UNCHANGED <<files, dirs, tmp, world0, nostats, cache_dir, stats_file,
                   counter_updates, op, role, args, ret, rd, nrec, nflush, nwrote, disk,
                   flushed, cleaned>>

ZeroRead(p) ==
    /\ pc[p] = "read" /\ op[p] = "zero"
    /\ \E c \in ReadResults(files[dir[p]], counters[p]) :
           /\ rd' = [rd EXCEPT ![p] = c]
           /\ counters' = [counters EXCEPT ![p] = zero_counters(c)]
    /\ pc' = [pc EXCEPT ![p] = "write"]
    /\ UNCHANGED <<files, dirs, tmp, lock, world0, nostats, cache_dir,
                   stats_file, counter_updates, op, role, dir, args, ret, nrec, nflush,
                   nwrote, disk, flushed, cleaned, intruded>>

ZeroRelease(p) ==
    /\ pc[p] = "release" /\ op[p] = "zero"
    /\ lock' = lockfile_release(lock, dir[p])
    /\ NextDir(p, "lock")
    /\ UNCHANGED <<files, dirs, tmp, world0, nostats, cache_dir, stats_file,
                   counter_updates, op, role, counters, args, ret, rd, nrec, nflush,
                   nwrote, disk, flushed, cleaned, intruded>>

(***************************************************************************)
(* stats_set_limits                                                        *)
(***************************************************************************)
(* divide the limits by 16, create the cache directory, enter the loop;    *)
(* args keeps the divided limits, then the limits as they were passed      *)
SetLimitsCall(p) ==
    /\ pc[p] = "idle" /\ role[p] = "new" /\ p \in Admins /\ cache_dir[p]
    /\ \E a \in LimitInputs :
          args' = [args EXCEPT ![p] = <<limit_per_dir(a[1]), limit_per_dir(a[2]),
                                         a[1], a[2]>>]
    /\ dir' = [dir EXCEPT ![p] = 0]
    /\ op' = [op EXCEPT ![p] = "set_limits"]
    /\ role' = [role EXCEPT ![p] = "admin"]
    /\ pc' = [pc EXCEPT ![p] = "mkdir"]
    /\ UNCHANGED <<files, dirs, tmp, lock, world0, nostats, cache_dir,
                   stats_file, counter_updates, counters, ret, rd, nrec, nflush, nwrote, disk, flushed, cleaned, intruded>>

(* create_dir(cdir) at the head of the loop body: return 1 when it fails *)
SetLimitsMkdir(p) ==
    /\ pc[p] = "mkdir" /\ op[p] = "set_limits"
    /\ dirs' = create_dir(dirs, dir[p])
    /\ IF create_dir_rc(dirs, dir[p]) # 0
       THEN /\ ret' = [ret EXCEPT ![p] = 1]
            /\ pc' = [pc EXCEPT ![p] = "idle"]
       ELSE /\ pc' = [pc EXCEPT ![p] = "lock"]
            /\ UNCHANGED ret
    /\ UNCHANGED <<files, tmp, lock, world0, nostats, cache_dir, stats_file,
                   counter_updates, op, role, counters, dir, args, rd, nrec, nflush,
                   nwrote, disk, flushed, cleaned, intruded>>

(* stats_set_limits that reads and writes without taking the lock *)
SetLimitsWithoutLock(p) ==
    /\ pc[p] = "lock" /\ op[p] = "set_limits"
    /\ pc' = [pc EXCEPT ![p] = "read"]
    /\ UNCHANGED <<files, dirs, tmp, lock, world0, nostats, cache_dir, stats_file,
                   counter_updates, op, role, counters, dir, args, ret, rd, nrec, nflush,
                   nwrote, disk, flushed, cleaned, intruded>>

(* the loop has ended when pc is back to "idle": return 0 *)
SetLimitsAcquire(p) ==
    /\ pc[p] = "lock" /\ op[p] = "set_limits"
    /\ \E o \in lockfile_acquire(lock[dir[p]], dir[p] \in dirs) :
          /\ Locked(p, dir[p], o)
          /\ IF loop_after_lock(o) = "continue"
             THEN NextDir(p, "mkdir")
             ELSE /\ pc' = [pc EXCEPT ![p] = "read"]
                  /\ UNCHANGED dir
    /\ ret' = [ret EXCEPT ![p] = 0]
    /\ UNCHANGED <<files, dirs, tmp, world0, nostats, cache_dir, stats_file,
                   counter_updates, op, role, counters, args, rd, nrec, nflush, nwrote, disk, flushed, cleaned>>

SetLimitsRead(p) ==
    /\ pc[p] = "read" /\ op[p] = "set_limits"
    /\ \E c \in ReadResults(files[dir[p]], ZeroCounters) :
           /\ rd' = [rd EXCEPT ![p] = c]
           /\ counters' = [counters EXCEPT ![p] = set_limits_counters(c, args[p][1], args[p][2])]
    /\ pc' = [pc EXCEPT ![p] = "write"]
    /\ UNCHANGED <<files, dirs, tmp, lock, world0, nostats, cache_dir,
                   stats_file, counter_updates, op, role, dir, args, ret, nrec, nflush,
                   nwrote, disk, flushed, cleaned, intruded>>

SetLimitsRelease(p) ==
    /\ pc[p] = "release" /\ op[p] = "set_limits"
    /\ lock' = lockfile_release(lock, dir[p])
    /\ NextDir(p, "mkdir")
    /\ ret' = [ret EXCEPT ![p] = 0]
    /\ UNCHANGED <<files, dirs, tmp, world0, nostats, cache_dir, stats_file,
                   counter_updates, op, role, counters, args, rd, nrec, nflush, nwrote, disk, flushed, cleaned, intruded>>

(***************************************************************************)
(* stats_set_sizes                                                         *)
(***************************************************************************)
SetSizesCall(p) ==
    /\ pc[p] = "idle" /\ role[p] = "new" /\ p \in Admins /\ cache_dir[p]
    /\ \E a \in SizeInputs :
          /\ args' = [args EXCEPT ![p] = a]
          /\ dirs' = create_dir(dirs, a[1])
    /\ counters' = [counters EXCEPT ![p] = ZeroCounters]
    /\ op' = [op EXCEPT ![p] = "set_sizes"]
    /\ role' = [role EXCEPT ![p] = "admin"]
    /\ pc' = [pc EXCEPT ![p] = "lock"]
    /\ UNCHANGED <<files, tmp, lock, world0, nostats, cache_dir, stats_file,
                   counter_updates, dir, ret, rd, nrec, nflush, nwrote, disk, flushed,
                   cleaned, intruded>>

SetSizesAcquire(p) ==
    /\ pc[p] = "lock" /\ op[p] = "set_sizes"
    /\ \E o \in lockfile_acquire(lock[args[p][1]], args[p][1] \in dirs) :
          /\ Locked(p, args[p][1], o)
          /\ pc' = [pc EXCEPT ![p] = IF o = "failed" THEN "idle" ELSE "read"]
    /\ UNCHANGED <<files, dirs, tmp, world0, nostats, cache_dir, stats_file,
                   counter_updates, op, role, counters, dir, args, ret, rd, nrec, nflush,
                   nwrote, disk, flushed, cleaned>>

SetSizesRead(p) ==
    /\ pc[p] = "read" /\ op[p] = "set_sizes"
    /\ \E c \in ReadResults(safe_open(files[args[p][1]]), counters[p]) :
           /\ rd' = [rd EXCEPT ![p] = c]
           /\ counters' = [counters EXCEPT ![p] = set_sizes_counters(c, args[p][2], args[p][3])]
    /\ pc' = [pc EXCEPT ![p] = "write"]
    /\ UNCHANGED <<files, dirs, tmp, lock, world0, nostats, cache_dir,
                   stats_file, counter_updates, op, role, dir, args, ret, nrec, nflush,
                   nwrote, disk, flushed, cleaned, intruded>>

SetSizesRelease(p) ==
    /\ pc[p] = "release" /\ op[p] = "set_sizes"
    /\ lock' = lockfile_release(lock, args[p][1])
    /\ pc' = [pc EXCEPT ![p] = "idle"]
    /\ UNCHANGED <<files, dirs, tmp, world0, nostats, cache_dir, stats_file,
                   counter_updates, op, role, counters, dir, args, ret, rd, nrec, nflush,
                   nwrote, disk, flushed, cleaned, intruded>>

(***************************************************************************)
(* The lock-free readers: stats_read and stats_summary                     *)
(***************************************************************************)
(* stats_read(path, counters) on a zeroed vector *)
StatsRead(p) ==
    /\ pc[p] = "idle" /\ role[p] = "new" /\ p \in Admins /\ cache_dir[p]
    /\ \E path \in ReadInputs :
          /\ args' = [args EXCEPT ![p] = <<path>>]
          /\ \E c \in ReadResults(files[path], ZeroCounters) :
                counters' = [counters EXCEPT ![p] = c]
    /\ op' = [op EXCEPT ![p] = "read"]
    /\ role' = [role EXCEPT ![p] = "admin"]
    /\ UNCHANGED <<files, dirs, tmp, lock, world0, nostats, cache_dir,
                   stats_file, counter_updates, pc, dir, ret, rd, nrec, nflush, nwrote, disk, flushed, cleaned, intruded>>

(* stats_summary that adds the top-level file as it is *)
summary_keep(d, c) == c

(* stats_summary: "oh what a nasty hack", max-size of the top-level file   *)
(* is dropped                                                              *)
summary_hack(d, c) == IF d = -1 THEN [c EXCEPT ![STATS_MAXSIZE] = UZero] ELSE c

SummaryCall(p) ==
    /\ pc[p] = "idle" /\ role[p] = "new" /\ p \in Admins /\ cache_dir[p]
    /\ counters' = [counters EXCEPT ![p] = ZeroCounters]
    /\ dir' = [dir EXCEPT ![p] = -1]
    /\ op' = [op EXCEPT ![p] = "summary"]
    /\ role' = [role EXCEPT ![p] = "admin"]
    /\ pc' = [pc EXCEPT ![p] = "sum"]
    /\ UNCHANGED <<files, dirs, tmp, lock, world0, nostats, cache_dir,
                   stats_file, counter_updates, args, ret, rd, nrec, nflush, nwrote, disk, flushed, cleaned, intruded>>

(* one turn of the loop: add the file at dir, -1 being the top-level file *)
SummaryRead(p) ==
    /\ pc[p] = "sum" /\ op[p] = "summary"
    /\ \E c \in ReadResults(files[dir[p]], counters[p]) :
           counters' = [counters EXCEPT ![p] = summary_hack(dir[p], c)]
    /\ NextDir(p, "sum")
    /\ UNCHANGED <<files, dirs, tmp, lock, world0, nostats, cache_dir,
                   stats_file, counter_updates, op, role, args, ret, rd, nrec, nflush,
                   nwrote, disk, flushed, cleaned, intruded>>

(***************************************************************************)
(* Specification                                                           *)
(***************************************************************************)
Compile(p) ==
    \/ Record(p)
    \/ ComputeHash(p)
    \/ FlushNoop(p)
    \/ FlushBegin(p)
    \/ FlushAcquire(p)
    \/ FlushRead(p)
    \/ WriteStats(p)
    \/ Rename(p)
    \/ FlushRelease(p)
    \/ FlushCleanup(p)

Admin(p) ==
    \/ ZeroCall(p)
    \/ ZeroAcquire(p)
    \/ ZeroRead(p)
    \/ ZeroRelease(p)
    \/ SetLimitsCall(p)
    \/ SetLimitsMkdir(p)
    \/ SetLimitsAcquire(p)
    \/ SetLimitsRead(p)
    \/ SetLimitsRelease(p)
    \/ SetSizesCall(p)
    \/ SetSizesAcquire(p)
    \/ SetSizesRead(p)
    \/ SetSizesRelease(p)
    \/ StatsRead(p)
    \/ SummaryCall(p)
    \/ SummaryRead(p)

Next == \E p \in Procs : Compile(p) \/ Admin(p)

(* every library call of write_stats succeeds *)
Init == disk = "ok" /\ Start

Spec == Init /\ [][Next]_vars

(* the same on any disk *)
InitFault == disk \in DiskStates /\ Start

SpecFault == InitFault /\ [][Next]_vars

(* the codec and the unsigned arithmetic: p1 reads a stats file with       *)
(* stats_read while p2 records and flushes, in a cache whose subdirectory  *)
(* 0 holds a truncated or corrupted stats file                             *)
InitCodec ==
    /\ disk = "ok"
    /\ \E w \in CodecWorlds, u \in CodecPendings :
          StartWith(w, [p \in Procs |-> IF p = "p2" THEN u ELSE ZeroCounters], NoEnv)

NextCodec == StatsRead("p1") \/ Compile("p2")

SpecCodec == InitCodec /\ [][NextCodec]_vars

(* the same operations when CCACHE_NOSTATS is set in the environment of p2 *)
OptedOut == [p \in Procs |-> p = "p2"]

InitEnv == disk = "ok" /\ StartWith(InitWorld, NoPending, OptedOut)

SpecEnv == InitEnv /\ [][Next]_vars

(***************************************************************************)
(* Properties                                                              *)
(***************************************************************************)
(* the vector a complete stats file holds, slot by slot *)
VectorOf(f) == [i \in Slots |-> f.data[i + 1]]

(* a stats file that holds one number for every slot *)
Complete(f) ==
    /\ Len(f.data) = STATS_END
    /\ \A i \in 1 .. STATS_END : IsNumber(f.data[i])

(* the element-wise sum of two vectors *)
Plus(a, b) == [i \in Slots |-> UAdd(a[i], b[i])]

(* the vector with d in the max-size slot and 0 in every other slot *)
AbsentVector(d) == [i \in Slots |-> IF i = STATS_MAXSIZE THEN U(d) ELSE UZero]

(* the vector on disk at f, AbsentVector(d) standing for a missing file *)
OnDisk(f, d) == IF f.exists THEN VectorOf(f) ELSE AbsentVector(d)

(* the default max-size of one subdirectory *)
PerDirDefault == DEFAULT_MAXSIZE \div 16

(* both processes have flushed into the same subdirectory and returned *)
BothFlushed ==
    /\ \A p \in Procs : pc[p] = "idle" /\ nwrote[p] >= 1
    /\ stats_file["p1"] # NULL
    /\ stats_file["p1"] = stats_file["p2"]

(* the stats file holds what was there at the start plus what each of the  *)
(* two processes merged                                                    *)
SumOfBoth ==
    OnDisk(files[stats_file["p1"]], PerDirDefault)
      = Plus(Plus(OnDisk(world0.files[stats_file["p1"]], PerDirDefault),
                  flushed["p1"]), flushed["p2"])

(* C1 (as amended): when two processes have flushed into the same          *)
(* subdirectory and no lock was broken while its holder was inside its     *)
(* update, the stats file holds the initial vector plus the pending        *)
(* vectors both merged, whichever went first.                              *)
C1_Serialized == (BothFlushed /\ ~intruded) => SumOfBoth

(* C1 as written: the same also when a lock was broken *)
C1_SerializedAlways == BothFlushed => SumOfBoth

C1_Witness == BothFlushed /\ ~intruded /\ stats_file["p1"] = 0

FlushPersists(p, d) ==
    /\ pc[p] = "rename" =>
          tmp[p] = File(stats_lines(Plus(rd[p], counter_updates[p])))
    /\ (pc[p] \in {"write", "rename"} /\ ~intruded) =>
          rd[p] = OnDisk(files[stats_file[p]], d)
    /\ (pc[p] = "release" /\ ~intruded) =>
          files[stats_file[p]] = File(stats_lines(Plus(rd[p], counter_updates[p])))

(* p1 has recorded one direct hit and stats_update_size(miss, 512, 1) and  *)
(* has flushed them once into subdirectory f, which had no stats file      *)
HitAndMissFlushed ==
    /\ counter_updates["p1"][STATS_CACHEHIT_DIR] = U(1)
    /\ counter_updates["p1"][STATS_TOCACHE] = U(1)
    /\ nflush["p1"] = 1 /\ nwrote["p1"] = 1 /\ pc["p1"] = "idle"
    /\ stats_file["p1"] = 15
    /\ stats_file["p2"] # 15

(* the stats file of the scenario, d its max-size *)
HitAndMissFile(d) ==
    File(stats_lines([i \in Slots |->
        CASE i = STATS_CACHEHIT_DIR -> U(1)
          [] i = STATS_TOCACHE -> U(1)
          [] i = STATS_NUMFILES -> U(1)
          [] i = STATS_TOTALSIZE -> U(512)
          [] i = STATS_MAXSIZE -> U(d)
          [] OTHER -> UZero]))

(* C3 (as amended): a stats_flush that holds the lock persists the vector  *)
(* on disk (for a missing file: all 0 but max-size DEFAULT_MAXSIZE / 16)   *)
(* plus the pending vector; one hit and update_size(miss, 512, 1) flushed  *)
(* into a subdirectory without a stats file leave cachehit_dir = 1,        *)
(* miss = 1, numfiles = 1, totalsize = 512, maxsize = DEFAULT_MAXSIZE / 16 *)
(* and 0 elsewhere.                                                        *)
C3_FlushPersists ==
    /\ \A p \in Procs : op[p] = "flush" => FlushPersists(p, PerDirDefault)
    /\ HitAndMissFlushed => files[15] = HitAndMissFile(PerDirDefault)

(* C3 as written: maxsize is DEFAULT_MAXSIZE *)
C3_FlushPersistsDefault ==
    /\ \A p \in Procs : op[p] = "flush" => FlushPersists(p, DEFAULT_MAXSIZE)
    /\ HitAndMissFlushed => files[15] = HitAndMissFile(DEFAULT_MAXSIZE)

C3_Witness == HitAndMissFlushed /\ ~intruded

(* the step in which lockfile_acquire of p's stats_flush fails *)
FlushLockFails(p) ==
    /\ op[p] = "flush" /\ pc[p] = "lock" /\ pc'[p] # "lock"
    /\ lock'[stats_file[p]] # p

(* C4: when lockfile_acquire fails in stats_flush, the call returns in     *)
(* that step: the stats files are as they were, no temp file is written,   *)
(* cleanup_dir is not called and the process has not exited.               *)
C4_LockFailureAbandons ==
    [][\A p \in Procs :
          FlushLockFails(p) =>
              /\ pc'[p] = "idle"
              /\ files' = files
              /\ tmp' = tmp
              /\ nwrote' = nwrote
              /\ cleaned'[p] = <<>>]_vars

(* a stats_flush with something to flush returned without having read *)
C4_Witness ==
    \E p \in Procs :
        /\ op[p] = "flush" /\ pc[p] = "idle"
        /\ should_flush(counter_updates[p])
        /\ flushed[p] = ZeroCounters
        /\ lock[stats_file[p]] \notin {p, "free"}

(* the limits of the merged vector c are exceeded *)
OverLimit(c) ==
    \/ c[STATS_MAXFILES] # UZero /\ UGt(c[STATS_NUMFILES], c[STATS_MAXFILES])
    \/ c[STATS_MAXSIZE] # UZero /\ UGt(c[STATS_TOTALSIZE], c[STATS_MAXSIZE])

(* the step in which p's stats_flush returns after its update *)
FlushReturns(p) == op[p] = "flush" /\ pc[p] = "limits" /\ pc'[p] = "idle"

(* C5: a stats_flush that made its update calls cleanup_dir exactly once,  *)
(* on the directory of its stats file and with the merged max-files and    *)
(* max-size, if one of the merged limits is not 0 and exceeded, and does   *)
(* not call it otherwise; a max-files of 0 never triggers it.              *)
C5_CleanupIffOverLimit ==
    [][\A p \in Procs :
          FlushReturns(p) =>
              cleaned'[p] = IF OverLimit(counters[p])
                            THEN << <<stats_file[p], counters[p][STATS_MAXFILES],
                                      counters[p][STATS_MAXSIZE]>> >>
                            ELSE <<>>]_vars

(* a flush over a max-files of 10 called cleanup_dir, and a flush that     *)
(* left more files than a max-files of 0 did not                           *)
C5_Witness ==
    /\ cleaned["p2"] = << <<0, U(10), U(100)>> >>
    /\ stats_file["p1"] = 15 /\ nwrote["p1"] = 1 /\ pc["p1"] = "idle"
    /\ cleaned["p1"] = <<>>
    /\ VectorOf(files[15])[STATS_NUMFILES] = U(1)
    /\ VectorOf(files[15])[STATS_MAXFILES] = UZero

(* C6: each recorded delta is merged at most once: when a process that has *)
(* already written its pending vector flushes again, what it is about to   *)
(* rename into place is the stats file as it is, and what it has merged in *)
(* all is its pending vector.                                              *)
C6_ConsumedOnce ==
    \A p \in Procs :
        (op[p] = "flush" /\ pc[p] = "rename" /\ nwrote[p] >= 1 /\ ~intruded) =>
            /\ tmp[p] = files[stats_file[p]]
            /\ flushed[p] = counter_updates[p]

(* the counters but for the unused slot STATS_NONE *)
Counted == Slots \ {STATS_NONE}

(* stats_zero is about to rename into place the vector on disk with every  *)
(* counter outside `kept` reset to 0                                       *)
ZeroKeeps(p, kept) ==
    (pc[p] = "rename" /\ ~intruded) =>
        \A i \in Counted :
            VectorOf(tmp[p])[i] = IF i \in kept
                                  THEN OnDisk(files[dir[p]], PerDirDefault)[i]
                                  ELSE UZero

(* C7 (as amended): stats_zero removes the top-level stats file and, for   *)
(* every subdirectory whose lock it acquires, resets to 0 every counter    *)
(* except max-files, max-size, the file count and the total size, which    *)
(* stay as they are on disk.                                               *)
C7_ZeroKeepsSizes ==
    \A p \in Procs :
        op[p] = "zero" =>
            /\ ~files[TopLevel].exists
            /\ ZeroKeeps(p, {STATS_MAXFILES, STATS_MAXSIZE, STATS_NUMFILES,
                             STATS_TOTALSIZE})

(* C7 as written: only max-files and max-size stay *)
C7_ZeroKeepsLimits ==
    \A p \in Procs :
        op[p] = "zero" =>
            /\ ~files[TopLevel].exists
            /\ ZeroKeeps(p, {STATS_MAXFILES, STATS_MAXSIZE})

(* stats_zero has gone through the subdirectories *)
C7_Witness ==
    /\ op["p1"] = "zero" /\ pc["p1"] = "idle" /\ ~intruded
    /\ world0.files[TopLevel].exists
    /\ VectorOf(files[3])[STATS_TOCACHE] = UZero
    /\ VectorOf(files[3])[STATS_NUMFILES] = U(10)

(* the limit stats_set_limits stores for the limit v it was passed, old    *)
(* being the value on disk                                                 *)
LimitFor(v, old) == IF v = -1 THEN old ELSE U(v \div 16)

(* the vector stats_set_limits(maxfiles, maxsize) leaves for the vector c  *)
WithLimits(c, maxfiles, maxsize) ==
    [i \in Slots |->
        CASE i = STATS_MAXFILES -> LimitFor(maxfiles, c[i])
          [] i = STATS_MAXSIZE -> LimitFor(maxsize, c[i])
          [] OTHER -> c[i]]

(* C8: for every subdirectory whose lock it acquires,                      *)
(* stats_set_limits(maxfiles, maxsize) writes maxfiles div 16 and          *)
(* maxsize div 16 into the max-files and max-size slots, leaves a limit    *)
(* passed as -1 as it is on disk, and leaves every other counter as it is; *)
(* set_limits(160, 1600), run alone, leaves max-files 10 and max-size 100  *)
(* in each of the 16 subdirectories.                                       *)
C8_LimitsPerDir ==
    \A p \in Procs :
        op[p] = "set_limits" =>
            /\ (pc[p] = "rename" /\ ~intruded) =>
                  tmp[p] = File(stats_lines(
                              WithLimits(OnDisk(files[dir[p]], PerDirDefault),
                                         args[p][3], args[p][4])))
            /\ (pc[p] = "idle" /\ role["p2"] = "new"
                  /\ args[p][3] = 160 /\ args[p][4] = 1600) =>
                  \A q \in Shards :
                      /\ files[q].exists
                      /\ VectorOf(files[q])[STATS_MAXFILES] = U(10)
                      /\ VectorOf(files[q])[STATS_MAXSIZE] = U(100)
                      /\ \A i \in Slots \ {STATS_MAXFILES, STATS_MAXSIZE} :
                            VectorOf(files[q])[i]
                              = OnDisk(world0.files[q], PerDirDefault)[i]

(* set_limits(160, 1600) has gone through the 16 subdirectories *)
C8_Witness ==
    /\ op["p1"] = "set_limits" /\ pc["p1"] = "idle" /\ role["p2"] = "new"
    /\ args["p1"][3] = 160 /\ args["p1"][4] = 1600

(* C9: stats_set_sizes(dir, num_files, total_size), when it acquires the   *)
(* lock, stores num_files and total_size over the file count and the total *)
(* size of that subdirectory, leaves its other counters as they are on     *)
(* disk, and changes no other stats file.                                  *)
C9_SetSizesOverwrites ==
    \A p \in Procs :
        op[p] = "set_sizes" =>
            /\ (pc[p] = "rename" /\ ~intruded) =>
                  tmp[p] = File(stats_lines(
                      [i \in Slots |->
                          CASE i = STATS_NUMFILES -> args[p][2]
                            [] i = STATS_TOTALSIZE -> args[p][3]
                            [] OTHER -> OnDisk(files[args[p][1]], PerDirDefault)[i]]))
            /\ nwrote["p2"] = 0 =>
                  \A q \in Paths \ {args[p][1]} : files[q] = world0.files[q]

(* set_sizes(0, 3, 77) has replaced the file count 10 and total size 100 *)
C9_Witness ==
    /\ op["p1"] = "set_sizes" /\ pc["p1"] = "idle" /\ nwrote["p1"] = 1
    /\ args["p1"] = <<0, U(3), U(77)>>
    /\ VectorOf(world0.files[0])[STATS_NUMFILES] = U(10)
    /\ VectorOf(files[0])[STATS_NUMFILES] = U(3)
    /\ VectorOf(files[0])[STATS_TOTALSIZE] = U(77)

(* a read of a missing stats file into a zeroed vector gave all 0 but d in *)
(* the max-size slot: by stats_read, and by the read step of an update     *)
ReadsAbsentAs(d) ==
    \A p \in Procs :
        /\ (op[p] = "read" /\ ~files[args[p][1]].exists) =>
              counters[p] = AbsentVector(d)
        /\ (pc[p] = "write" /\ ~files[CurPath(p)].exists) =>
              rd[p] = AbsentVector(d)

(* C10 (as amended): reading a missing stats file into a zeroed vector     *)
(* gives max-size DEFAULT_MAXSIZE / 16 and 0 in every other slot.          *)
C10_AbsentReadsPerDirDefault == ReadsAbsentAs(PerDirDefault)

(* C10 as written: max-size DEFAULT_MAXSIZE *)
C10_AbsentReadsDefault == ReadsAbsentAs(DEFAULT_MAXSIZE)

(* stats_read was handed the path of a missing stats file *)
C10_Witness ==
    /\ op["p1"] = "read" /\ args["p1"] = <<15>>
    /\ ~files[15].exists
    /\ counters["p1"][STATS_MAXSIZE] = U(65536)

(* C11: a failure to write the temp stats file (fopen, an fprintf, the     *)
(* fclose or the rename) is fatal: on a disk where write_stats fails no    *)
(* process goes on from write_stats to release the lock and evaluate the   *)
(* limits.                                                                 *)
C11_WriteFailureFatal ==
    disk # "ok" => \A p \in Procs : pc[p] \notin {"release", "limits"}

(* stats_read has returned in p1 for the stats file of subdirectory 0,     *)
(* which no flush has replaced yet                                         *)
CodecRead == op["p1"] = "read" /\ args["p1"] = <<0>> /\ nwrote["p2"] = 0

(* what strtol returns for the decimal text of x where long has b bits *)
AsLong(x, b) == IF b = 32 /\ UGt(x, LONG_MAX_32) THEN LONG_MAX_32 ELSE x

(* v on the slots 0..k-1 as a build with b-bit long reads it, 0 elsewhere *)
FirstLines(v, k, b) == [i \in Slots |-> IF i < k THEN AsLong(v[i], b) ELSE UZero]

(* C12 (as amended): a stats file with a token that is no number is not   *)
(* read like a missing one: the read keeps the numbers before that token  *)
(* and leaves the other slots 0, max-size too when it comes after.         *)
C12_CorruptReadsPrefix ==
    (CodecRead /\ world0.junk) =>
        counters["p1"] \in {FirstLines(world0.vector, world0.lines, b) : b \in LongBits}

(* a file whose first token is no number has been read: max-size is 0 *)
C12_Witness ==
    /\ CodecRead /\ world0.junk /\ world0.lines = 0
    /\ counters["p1"] = ZeroCounters

(* C12 (as stated): a non-empty stats file with a token that is no number  *)
(* is read like a missing one, giving the default vector.                  *)
C12_CorruptReadsDefault ==
    (CodecRead /\ world0.junk) => counters["p1"] = AbsentVector(PerDirDefault)

(* C13 (as amended): reading the first k lines of the encoding of v gives  *)
(* v on the slots 0..k-1 and 0 on the others for k in 1..N, a value above  *)
(* LONG_MAX reading as LONG_MAX where long has 32 bits; the empty file     *)
(* (k = 0) gives the default vector, max-size DEFAULT_MAXSIZE / 16.        *)
C13_PrefixReadsBack ==
    (CodecRead /\ ~world0.junk) =>
        IF world0.lines = 0
        THEN counters["p1"] = AbsentVector(PerDirDefault)
        ELSE counters["p1"] \in
                {FirstLines(world0.vector, world0.lines, b) : b \in LongBits}

(* the whole encoding of the vector with the large counters was read back  *)
(* unchanged                                                               *)
C13_Witness ==
    /\ CodecRead /\ ~world0.junk /\ world0.lines = STATS_END
    /\ world0.vector = BigVector
    /\ counters["p1"] = BigVector

(* C13 (as stated): for every k in 0..N the first k lines of the encoding  *)
(* of v read back as v on 0..k-1 and 0 on every other slot, max-size too   *)
(* for k = 0.                                                              *)
C13_PrefixReadsBackZero ==
    (CodecRead /\ ~world0.junk) =>
        counters["p1"] = [i \in Slots |->
                             IF i < world0.lines THEN world0.vector[i] ELSE UZero]

(* the sum of slot i over the stats files of the subdirectories 0..n *)
RECURSIVE ShardSum(_, _)
ShardSum(i, n) ==
    IF n < 0 THEN UZero
    ELSE UAdd(ShardSum(i, n - 1), OnDisk(files[n], PerDirDefault)[i])

(* the loop of stats_summary has ended in p1 and no stats file changed     *)
(* since it began                                                          *)
SummaryDone ==
    /\ op["p1"] = "summary" /\ pc["p1"] = "idle"
    /\ nwrote["p2"] = 0

(* the slots the claim calls size/file counters *)
SizeSlots == {STATS_NUMFILES, STATS_TOTALSIZE, STATS_MAXFILES, STATS_MAXSIZE}

(* C14 (as amended): stats_summary suppresses only the max-size of the     *)
(* top-level stats file: the summed max-size is the sum over the 16        *)
(* subdirectories, while file count, total size and max files, like every  *)
(* other counter, are the top-level value plus that sum.                   *)
C14_SummaryDropsMaxSize ==
    SummaryDone =>
        \A i \in Slots :
            counters["p1"][i] =
                IF i = STATS_MAXSIZE THEN ShardSum(i, 15)
                ELSE UAdd(OnDisk(files[TopLevel], PerDirDefault)[i], ShardSum(i, 15))

(* the summary of the used cache counts the 10 files of the top-level file *)
(* on top of the 80 of the subdirectories                                  *)
C14_Witness ==
    /\ SummaryDone
    /\ files[TopLevel].exists
    /\ counters["p1"][STATS_NUMFILES] = U(90)

(* C14 (as stated): file count, total size, max files and max size of the  *)
(* summary are the sums over the 16 subdirectories only, whatever the      *)
(* top-level file holds.                                                   *)
C14_SummaryDropsSizes ==
    SummaryDone => \A i \in SizeSlots : counters["p1"][i] = ShardSum(i, 15)

(* stats_flush is called by p with nothing pending or with CCACHE_NOSTATS  *)
(* set                                                                     *)
FlushOfNothing(p) ==
    /\ nflush'[p] = nflush[p] + 1
    /\ nostats[p] \/ \A i \in Slots : counter_updates[p][i] = UZero

(* C15: stats_flush called with every pending counter 0, or with           *)
(* CCACHE_NOSTATS set, returns at once: no lock is taken, no directory     *)
(* made, no stats or temp file changed and cleanup is not called.          *)
C15_FlushNoop ==
    [][\A p \in Procs :
          FlushOfNothing(p) =>
              /\ lock' = lock /\ dirs' = dirs /\ files' = files /\ tmp' = tmp
              /\ stats_file' = stats_file
              /\ pc'[p] = "idle" /\ cleaned'[p] = <<>>]_vars

(* p2, with CCACHE_NOSTATS set, has recorded and called stats_flush *)
C15_Witness ==
    /\ nostats["p2"] /\ nflush["p2"] >= 1 /\ pc["p2"] = "idle"
    /\ counter_updates["p2"] # ZeroCounters
    /\ nwrote["p2"] = 0 /\ stats_file["p2"] = NULL

(* p takes a step of a stats_flush that goes beyond the early returns *)
FlushStep(p) == op'[p] = "flush" /\ pc'[p] # pc[p]

(* both processes have flushed, into different subdirectories, and returned *)
FlushedApart ==
    /\ \A p \in Procs : role[p] = "compile" /\ pc[p] = "idle" /\ nwrote[p] >= 1
    /\ stats_file["p1"] # stats_file["p2"]

(* each of the two stats files holds what it held at the start plus what   *)
(* its own writer merged, and no other stats file has changed              *)
EachItsOwn ==
    /\ \A p \in Procs :
          OnDisk(files[stats_file[p]], PerDirDefault)
            = Plus(OnDisk(world0.files[stats_file[p]], PerDirDefault), flushed[p])
    /\ \A q \in Paths \ {stats_file[p] : p \in Procs} : files[q] = world0.files[q]

(* C16: a stats_flush works on one stats file, the one of stats_file as    *)
(* set by the cache entry or by hash(pid) mod 16: no step of it changes    *)
(* another stats file or moves to another subdirectory, and after flushes  *)
(* into two different subdirectories each stats file holds its initial     *)
(* vector plus the pending vector of its own writer.                       *)
C16_OneShardPerFlush ==
    [][/\ \A p \in Procs :
             FlushStep(p) =>
                 /\ stats_file'[p] \in Shards
                 /\ pc[p] # "idle" => stats_file'[p] = stats_file[p]
                 /\ \A q \in Paths \ {stats_file'[p]} : files'[q] = files[q]
       /\ (FlushedApart => EachItsOwn)']_vars

(* p1 has flushed into the subdirectory of its cache entry and p2 into the *)
(* one of its pid                                                          *)
C16_Witness ==
    /\ FlushedApart
    /\ stats_file["p1"] = 0 /\ stats_file["p2"] = 15
    /\ EachItsOwn

(* the carry out of the low halves of a + b, and the high half of the true *)
(* sum, which fits in an unsigned when that is below Half                  *)
LowCarry(a, b) == IF a[2] + b[2] >= Half THEN 1 ELSE 0

HighSum(a, b) == a[1] + b[1] + LowCarry(a, b)

LowSum(a, b) == a[2] + b[2] - LowCarry(a, b) * Half

(* a + b reduced modulo 2^32 *)
WrappedSum(a, b) ==
    <<IF HighSum(a, b) >= Half THEN HighSum(a, b) - Half ELSE HighSum(a, b),
      LowSum(a, b)>>

(* a + b held at UINT_MAX *)
SaturatedSum(a, b) ==
    IF HighSum(a, b) >= Half THEN UINT_MAX ELSE <<HighSum(a, b), LowSum(a, b)>>

(* a record call of p leaves in every pending counter the Sum of what it   *)
(* held and what the call adds                                             *)
LedgerAdds(p, Sum(_, _)) ==
    nrec'[p] = nrec[p] + 1 =>
        \E in \in RecordInputs(p) :
            \A i \in Slots :
                counter_updates'[p][i] =
                    CASE i = STATS_NUMFILES -> Sum(counter_updates[p][i], in[3])
                      [] i = STATS_TOTALSIZE -> Sum(counter_updates[p][i], in[2])
                      [] i = in[1] /\ i # STATS_NONE -> Sum(counter_updates[p][i], U(1))
                      [] OTHER -> counter_updates[p][i]

(* the merge of stats_flush leaves in every counter the Sum of the value   *)
(* read and the pending one                                                *)
MergeAdds(p, Sum(_, _)) ==
    (op[p] = "flush" /\ pc[p] = "read" /\ pc'[p] = "write") =>
        \A i \in Slots : counters'[p][i] = Sum(rd'[p][i], counter_updates[p][i])

(* C17 (as amended): the counters are unsigned and wrap around: an         *)
(* increment in the ledger or a merge in stats_flush whose true sum        *)
(* exceeds UINT_MAX leaves the sum modulo 2^32.                            *)
C17_CountersWrap ==
    [][\A p \in Procs : LedgerAdds(p, WrappedSum) /\ MergeAdds(p, WrappedSum)]_vars

(* a stats file with UINT_MAX files was read and one file merged into it:  *)
(* the vector about to be written counts 0 files                           *)
C17_Witness ==
    /\ op["p2"] = "flush" /\ pc["p2"] = "write"
    /\ rd["p2"][STATS_NUMFILES] = UINT_MAX
    /\ counter_updates["p2"][STATS_NUMFILES] = U(1)
    /\ counters["p2"][STATS_NUMFILES] = UZero

(* C17 (as stated): an increment in the ledger or a merge in stats_flush   *)
(* whose true sum exceeds UINT_MAX leaves the counter at UINT_MAX.         *)
C17_CountersSaturate ==
    [][\A p \in Procs : LedgerAdds(p, SaturatedSum) /\ MergeAdds(p, SaturatedSum)]_vars

(* the lockfile_acquire of a loop over the subdirectories returns in p     *)
(* without the lock                                                        *)
LoopLockFails(p) ==
    /\ op[p] \in {"zero", "set_limits"} /\ pc[p] = "lock"
    /\ pc'[p] # pc[p] \/ dir'[p] # dir[p]
    /\ lock'[dir[p]] # p

(* where the loop of the operation o takes up the next subdirectory *)
LoopHead(o) == IF o = "zero" THEN "lock" ELSE "mkdir"

(* C18: when stats_zero or stats_set_limits does not get the lock of a     *)
(* subdirectory it leaves every stats file, temp file and lock as it is    *)
(* and goes on with the next subdirectory, returning after the last one;   *)
(* a stats_set_limits whose loop ran to its end returns 0.                 *)
C18_LockFailureSkips ==
    [][\A p \in Procs :
          /\ LoopLockFails(p) =>
                /\ files' = files /\ tmp' = tmp /\ lock' = lock
                /\ dir'[p] = dir[p] + 1
                /\ pc'[p] = IF dir[p] < 15 THEN LoopHead(op[p]) ELSE "idle"
          /\ (op'[p] = "set_limits" /\ pc'[p] = "idle" /\ dir'[p] = 16) =>
                ret'[p] = 0]_vars

(* stats_set_limits has returned 0 after writing 15 of the 16 stats files: *)
(* the lock of one subdirectory was held by the flushing process           *)
C18_Witness ==
    /\ disk = "ok"
    /\ op["p1"] = "set_limits" /\ pc["p1"] = "idle" /\ dir["p1"] = 16
    /\ nwrote["p1"] = 15
    /\ ret["p1"] = 0

(* p is between its lockfile_acquire and its lockfile_release: it reads,   *)
(* writes or renames the stats file of its subdirectory, or is about to    *)
(* release                                                                 *)
ReadsOrWrites(p) == pc[p] \in {"read", "write", "rename", "release"}

(* p is outside every update: it has returned, it is in a loop between two *)
(* subdirectories, or it is in stats_flush past the release, where         *)
(* cleanup_dir is called                                                   *)
Outside(p) == pc[p] \in {"idle", "limits", "lock", "mkdir", "sum"}

(* p holds the lock of no subdirectory *)
HoldsNone(p) == \A s \in Shards : lock[s] # p

(* C19 (as amended): in stats_flush, stats_zero, stats_set_limits and      *)
(* stats_set_sizes the stats file is read and written between the          *)
(* lockfile_acquire and the lockfile_release of its subdirectory, so while *)
(* the lock is held unless another process broke it meanwhile; the process *)
(* holds no lock once the operation has returned or moved on, and none     *)
(* where stats_flush evaluates the limits and calls cleanup_dir.           *)
C19_LockAcrossUpdate ==
    \A p \in Procs :
        /\ (ReadsOrWrites(p) /\ ~intruded) => lock[CurPath(p)] = p
        /\ Outside(p) => HoldsNone(p)

(* a stats_flush has renamed its file into place, released the lock and is *)
(* about to evaluate the limits                                            *)
C19_Witness ==
    /\ op["p2"] = "flush" /\ pc["p2"] = "limits" /\ nwrote["p2"] >= 1
    /\ lock[stats_file["p2"]] = "free"
    /\ ~intruded

(* C19 (as stated): the stats file is read and written only while the lock *)
(* is held, and the process holds no lock after it returned or where       *)
(* cleanup_dir is called.                                                  *)
C19_LockAcrossUpdateAlways ==
    \A p \in Procs :
        /\ ReadsOrWrites(p) => lock[CurPath(p)] = p
        /\ Outside(p) => HoldsNone(p)

(* p1 has run stats_set_limits over all 16 subdirectories, acquiring every *)
(* lock, and p2 has flushed into one of them; both have returned           *)
LimitsAndFlushDone ==
    /\ op["p1"] = "set_limits" /\ pc["p1"] = "idle" /\ nwrote["p1"] = 16
    /\ role["p2"] = "compile" /\ pc["p2"] = "idle" /\ nwrote["p2"] >= 1

(* the stats file p2 flushed into holds the limits p1 set and, in every    *)
(* other slot, the initial value plus what p2 merged                       *)
LimitsAndDeltas ==
    OnDisk(files[stats_file["p2"]], PerDirDefault)
      = WithLimits(Plus(OnDisk(world0.files[stats_file["p2"]], PerDirDefault),
                        flushed["p2"]),
                   args["p1"][3], args["p1"][4])

(* C20 (as amended): a stats_flush and a stats_set_limits on the same      *)
(* subdirectory, each acquiring the lock and neither lock broken while its *)
(* holder is inside its update, leave max-files and max-size at the limits *)
(* set and every other counter at its initial value plus the flushed       *)
(* deltas, in every interleaving.                                          *)
C20_LimitsAndFlushCompose == (LimitsAndFlushDone /\ ~intruded) => LimitsAndDeltas

(* both have run on subdirectory 0 with no lock broken *)
C20_Witness ==
    /\ LimitsAndFlushDone /\ ~intruded
    /\ stats_file["p2"] = 0
    /\ args["p1"][3] = 160 /\ args["p1"][4] = 1600
    /\ LimitsAndDeltas

(* C20 (as stated): the same also when a lock was broken *)
C20_LimitsAndFlushComposeAlways == LimitsAndFlushDone => LimitsAndDeltas

====
